---- MODULE Spec2Model ----
(***************************************************************************)
(* protoc-gen-sphere-binding: resolution of binding locations and auto     *)
(* tags over a schema unit, construction of the per-field struct tags,     *)
(* the merge of those tags into the struct declarations of an existing     *)
(* .pb.go file, and the atomic rewrite of that file.                       *)
(*                                                                         *)
(* Struct tag text is modelled at token level: a text is a sequence of     *)
(* tokens, each a space, a key:"value" pair (the value already split at    *)
(* its commas) or a syntactically invalid chunk.  Escaping inside a quoted *)
(* value is not modelled.                                                  *)
(***************************************************************************)
EXTENDS Naturals, Sequences, FiniteSets, TLC

VARIABLES
  pc,        \* position of the run
  file,      \* the schema unit handed over by protoc (protogen.File)
  config,    \* binding.Config
  tags,      \* StructTags: the plan built by extractFile
  built,     \* log of the extractField calls that built the plan
  err,       \* the error the run returned: "" is nil
  ast,       \* the parsed declarations of the target file (ast.File)
  changed,   \* the flag ReTagsWithCheck reports through
  runs,      \* number of completed ReTagsWithCheck calls
  merges,    \* log of the ReTagsWithCheck calls: outcome, flag, source before
             \* and after, and per matched member <<original, new>> text
  bindingAliases, \* the value of the binding_aliases flag
  out,       \* the output directory handed to GenerateFile
  orig,      \* the output directory (inodes and entries) when the run started
  disk,      \* inodes of the output directory: content and permission
  dir,       \* directory entries: name -> inode
  wr,        \* the file name and permission generateFile found, and the
             \* local state of writeFileAtomic
  rd         \* the concurrent reader of the target file

vars == <<pc, file, config, tags, built, err, ast, changed, runs, merges, bindingAliases, out, orig, disk, dir, wr, rd>>

(* how often the merge is applied to one parsed source *)
MaxRuns == 2

-----------------------------------------------------------------------------
(* binding.BindingLocation *)

UNSPECIFIED == "UNSPECIFIED"
BODY == "BODY"
QUERY == "QUERY"
URI == "URI"
FORM == "FORM"
HEADER == "HEADER"

BindingLocation == {UNSPECIFIED, BODY, QUERY, URI, FORM, HEADER}

(* the table of the earlier generator: QUERY bound through form, no FORM *)
noJsonBindingEarlier ==
  (QUERY :> "form") @@ (URI :> "uri") @@ (HEADER :> "header")

(* var noJsonBinding: location -> tag key *)
noJsonBinding ==
  (QUERY :> "query") @@ (URI :> "uri") @@ (FORM :> "form") @@ (HEADER :> "header")

-----------------------------------------------------------------------------
(* github.com/fatih/structtag as the program uses it *)

(* structtag.Tag *)
Tag(key, name, options) == [Key |-> key, Name |-> name, Options |-> options]

(* tokens of a tag text *)
SP == [t |-> "sp", Key |-> "", Val |-> <<>>]
BAD == [t |-> "bad", Key |-> "", Val |-> <<>>]
KV(key, val) == [t |-> "kv", Key |-> key, Val |-> val]

(* Tag.Value: the name and the options joined by commas, here as the list *)
(* of the comma separated parts                                           *)
TagValue(tag) ==
  IF tag.Options = <<>> THEN <<tag.Name>> ELSE <<tag.Name>> \o tag.Options

RECURSIVE ParseFrom(_, _, _)
ParseFrom(text, i, acc) ==
  IF i > Len(text) THEN [err |-> FALSE, tags |-> acc]
  ELSE IF text[i].t = "sp" THEN ParseFrom(text, i + 1, acc)
  ELSE IF text[i].t = "bad" THEN [err |-> TRUE, tags |-> <<>>]
  ELSE ParseFrom(text, i + 1,
         Append(acc, Tag(text[i].Key, Head(text[i].Val), Tail(text[i].Val))))

(* structtag.Parse: the tags of a text in order, duplicates kept; a text  *)
(* that is not empty and holds no pair gives a nil *Tags and no error     *)
Parse(text) ==
  LET r == ParseFrom(text, 1, <<>>)
  IN [err |-> r.err,
      isNil |-> ~r.err /\ text # <<>> /\ r.tags = <<>>,
      tags |-> r.tags]

(* Tags.Set: replace every tag of that key in place, else append *)
Set(ts, tag) ==
  IF \E i \in 1..Len(ts) : ts[i].Key = tag.Key
    THEN [i \in 1..Len(ts) |-> IF ts[i].Key = tag.Key THEN tag ELSE ts[i]]
    ELSE Append(ts, tag)

RECURSIVE SetEach(_, _)
SetEach(ts, new) ==
  IF new = <<>> THEN ts ELSE SetEach(Set(ts, Head(new)), Tail(new))

RECURSIVE TagsString(_)
(* Tags.String: the pairs separated by one space *)
TagsString(ts) ==
  IF ts = <<>> THEN <<>>
  ELSE IF Len(ts) = 1 THEN <<KV(ts[1].Key, TagValue(ts[1]))>>
  ELSE <<KV(ts[1].Key, TagValue(ts[1])), SP>> \o TagsString(Tail(ts))

-----------------------------------------------------------------------------
(* Location/key resolution and tag construction (tagger.go) *)

getLocationAndAutoTags(hasLocation, locationValue, hasAutoTags, autoTagsValue, defaultLocation, defaultAutoTags) ==
  [location |-> IF hasLocation THEN locationValue ELSE defaultLocation,
   autoTags |-> IF hasAutoTags THEN autoTagsValue ELSE defaultAutoTags]

(* the tags of the non-empty keys of a list, each with the field's name *)
RECURSIVE NamedTags(_, _)
NamedTags(keys, name) ==
  IF keys = <<>> THEN <<>>
  ELSE IF Head(keys) = "" THEN NamedTags(Tail(keys), name)
  ELSE <<Tag(Head(keys), name, <<>>)>> \o NamedTags(Tail(keys), name)

(* extractField, lines 469-478: the auto tags *)
AutoTagEntries(fieldTags, autoTags, name) ==
  SetEach(fieldTags, NamedTags(autoTags, name))

(* the location key and json:"-" without the alias expansion *)
BindingEntriesNoAliases(fieldTags, location, name, cfg) ==
  IF location \in DOMAIN noJsonBinding
    THEN LET t1 == Set(fieldTags, Tag(noJsonBinding[location], name, <<>>))
         IN IF cfg.AutoRemoveJson THEN Set(t1, Tag("json", "-", <<>>)) ELSE t1
    ELSE fieldTags

(* extractField, lines 480-507: the location key, its aliases, json:"-" *)
BindingEntries(fieldTags, location, name, cfg) ==
  IF location \in DOMAIN noJsonBinding
    THEN LET tag == noJsonBinding[location]
             t1 == IF tag # ""
                     THEN LET t0 == Set(fieldTags, Tag(tag, name, <<>>))
                          IN IF tag \in DOMAIN cfg.BindingAliases
                               THEN SetEach(t0, NamedTags(cfg.BindingAliases[tag], name))
                               ELSE t0
                     ELSE fieldTags
         IN IF cfg.AutoRemoveJson THEN Set(t1, Tag("json", "-", <<>>)) ELSE t1
    ELSE fieldTags

(* extractField, lines 509-524: the manual fragments in order *)
RECURSIVE ManualEntries(_, _)
ManualEntries(fieldTags, fragments) ==
  IF fragments = <<>> THEN [res |-> "ok", tags |-> fieldTags]
  ELSE IF Head(fragments) = <<>> THEN ManualEntries(fieldTags, Tail(fragments))
  ELSE LET parse == Parse(Head(fragments))
       IN IF parse.err THEN [res |-> "err", tags |-> <<>>]
          ELSE IF parse.isNil THEN [res |-> "panic", tags |-> <<>>]
          ELSE ManualEntries(SetEach(fieldTags, parse.tags), Tail(fragments))

(* the construction that applies the manual fragments before the derived tags *)
BuildEntriesManualFirst(field, location, autoTags, cfg) ==
  LET m == IF field.hasTags THEN ManualEntries(<<>>, field.tags)
           ELSE [res |-> "ok", tags |-> <<>>]
  IN [res |-> m.res,
      tags |-> BindingEntries(AutoTagEntries(m.tags, autoTags, field.name),
                              location, field.name, cfg)]

(* the tag construction of extractField from the resolved pair *)
BuildEntries(field, location, autoTags, cfg) ==
  LET t1 == AutoTagEntries(<<>>, autoTags, field.name)
      t2 == BindingEntries(t1, location, field.name, cfg)
  IN IF field.hasTags THEN ManualEntries(t2, field.tags)
     ELSE [res |-> "ok", tags |-> t2]

(* extractField; the result also carries the pair the call resolved *)
extractField(field, location, autoTags, cfg) ==
  LET p == getLocationAndAutoTags(field.hasLocation, field.location,
                                  field.hasAutoTags, field.autoTags,
                                  location, autoTags)
  IN [built |-> BuildEntries(field, p.location, p.autoTags, cfg),
      location |-> p.location, autoTags |-> p.autoTags]

Failed(res) == [res |-> res, tags |-> <<>>, calls |-> {}]

RECURSIVE FieldsLoop(_, _, _, _, _, _, _)
(* lines 416-421 and 436-441: return the error, or record the field's tags *)
(* when there are any.  calls is the log of the extractField calls so far: *)
(* the pair each call resolved and the tags it built                       *)
RecordField(fields, owner, location, autoTags, cfg, messageTags, calls, r) ==
  IF r.built.res # "ok" THEN Failed(r.built.res)
  ELSE FieldsLoop(Tail(fields), owner, location, autoTags, cfg,
         IF Len(r.built.tags) > 0
           THEN (Head(fields).goName :> r.built.tags) @@ messageTags
           ELSE messageTags,
         calls \cup {[message |-> owner, field |-> Head(fields),
                      location |-> r.location, autoTags |-> r.autoTags,
                      tags |-> r.built.tags]})

(* the loops of lines 414-422 and 434-442 *)
FieldsLoop(fields, owner, location, autoTags, cfg, messageTags, calls) ==
  IF fields = <<>> THEN [res |-> "ok", tags |-> messageTags, calls |-> calls]
  ELSE RecordField(fields, owner, location, autoTags, cfg, messageTags, calls,
                   extractField(Head(fields), location, autoTags, cfg))

(* the fields of a oneof: protogen lists them in Message.Fields too *)
OneofFields(message, oneOf) ==
  [i \in 1..Len(oneOf.fields) |-> message.fields[oneOf.fields[i]]]

RECURSIVE OneofsLoop(_, _, _, _, _, _, _)
NextOneof(oneofs, message, location, autoTags, cfg, r) ==
  IF r.res # "ok" THEN r
  ELSE OneofsLoop(Tail(oneofs), message, location, autoTags, cfg, r.tags, r.calls)

(* lines 426-442 for one oneof, p its resolved pair *)
OneofMembers(oneofs, message, location, autoTags, cfg, messageTags, calls, p) ==
  NextOneof(oneofs, message, location, autoTags, cfg,
            FieldsLoop(OneofFields(message, Head(oneofs)), message.goName,
                       p.location, p.autoTags, cfg, messageTags, calls))

(* extractMessage, lines 424-443 *)
OneofsLoop(oneofs, message, location, autoTags, cfg, messageTags, calls) ==
  IF oneofs = <<>> THEN [res |-> "ok", tags |-> messageTags, calls |-> calls]
  ELSE OneofMembers(oneofs, message, location, autoTags, cfg, messageTags, calls,
         getLocationAndAutoTags(Head(oneofs).hasLocation, Head(oneofs).location,
                                Head(oneofs).hasAutoTags, Head(oneofs).autoTags,
                                location, autoTags))

RECURSIVE extractMessage(_, _, _, _)
RECURSIVE NestedLoop(_, _, _, _, _, _)
(* line 451: maps.Copy(tags, extraTags) *)
CopyNested(nested, location, autoTags, cfg, acc, calls, r) ==
  IF r.res # "ok" THEN r
  ELSE NestedLoop(Tail(nested), location, autoTags, cfg, r.tags @@ acc,
                  calls \cup r.calls)

(* extractMessage, lines 445-452 *)
NestedLoop(nested, location, autoTags, cfg, acc, calls) ==
  IF nested = <<>> THEN [res |-> "ok", tags |-> acc, calls |-> calls]
  ELSE CopyNested(nested, location, autoTags, cfg, acc, calls,
                  extractMessage(Head(nested), location, autoTags, cfg))

(* line 454: tags[message.GoIdent.GoName] = messageTags *)
MessageDone(message, messageTags, r3) ==
  IF r3.res # "ok" THEN r3
  ELSE [res |-> "ok", tags |-> (message.goName :> messageTags) @@ r3.tags,
        calls |-> r3.calls]

AfterOneofs(message, p, cfg, r2) ==
  IF r2.res # "ok" THEN r2
  ELSE MessageDone(message, r2.tags,
         NestedLoop(message.messages, p.location, p.autoTags, cfg, <<>>, r2.calls))

AfterFields(message, p, cfg, r1) ==
  IF r1.res # "ok" THEN r1
  ELSE AfterOneofs(message, p, cfg,
         OneofsLoop(message.oneofs, message, p.location, p.autoTags, cfg,
                    r1.tags, r1.calls))

(* extractMessage, lines 411-455, p the message's resolved pair *)
WalkMessage(message, p, cfg) ==
  AfterFields(message, p, cfg,
    FieldsLoop(message.fields, message.goName, p.location, p.autoTags, cfg,
               <<>>, {}))

extractMessage(message, location, autoTags, cfg) ==
  WalkMessage(message,
    getLocationAndAutoTags(message.hasLocation, message.location,
                           message.hasAutoTags, message.autoTags,
                           location, autoTags),
    cfg)

(* the declarations of a plan that hold at least one field *)
NonEmptyPlans(t) ==
  [n \in {m \in DOMAIN t : DOMAIN t[m] # {}} |-> t[n]]

RECURSIVE extractFileFrom(_, _, _, _)
(* extractFile, lines 370-377 *)
KeepNonEmpty(messages, cfg, acc, calls, r) ==
  IF r.res # "ok" THEN Failed(r.res)
  ELSE extractFileFrom(Tail(messages), cfg, NonEmptyPlans(r.tags) @@ acc,
                       calls \cup r.calls)

extractFileFrom(messages, cfg, acc, calls) ==
  IF messages = <<>> THEN [res |-> "ok", tags |-> acc, calls |-> calls]
  ELSE KeepNonEmpty(messages, cfg, acc, calls,
                    extractMessage(Head(messages), UNSPECIFIED, <<>>, cfg))

extractFile(f, cfg) == extractFileFrom(f.messages, cfg, <<>>, {})

-----------------------------------------------------------------------------
(* The schema unit: protogen.File, Message, Oneof, Field as the walker     *)
(* reads them.  An option that is not set reads as its zero value.         *)

NoLocation == [has |-> FALSE, value |-> UNSPECIFIED]
NoList == [has |-> FALSE, value |-> <<>>]
Explicit(v) == [has |-> TRUE, value |-> v]

Field(name, goName, location, autoTags, manual) ==
  [name |-> name, goName |-> goName,
   hasLocation |-> location.has, location |-> location.value,
   hasAutoTags |-> autoTags.has, autoTags |-> autoTags.value,
   hasTags |-> manual.has, tags |-> manual.value]

Oneof(location, autoTags, members) ==
  [hasLocation |-> location.has, location |-> location.value,
   hasAutoTags |-> autoTags.has, autoTags |-> autoTags.value,
   fields |-> members]

Message(goName, location, autoTags, fields, oneofs, messages) ==
  [goName |-> goName,
   hasLocation |-> location.has, location |-> location.value,
   hasAutoTags |-> autoTags.has, autoTags |-> autoTags.value,
   fields |-> fields, oneofs |-> oneofs, messages |-> messages]

File(prefix, messages) == [prefix |-> prefix, messages |-> messages]

Config(autoRemoveJson, aliases) ==
  [AutoRemoveJson |-> autoRemoveJson, BindingAliases |-> aliases]

(* manual tag fragments *)
fragQuery == <<KV("query", <<"y">>)>>
fragJson == <<KV("json", <<"n", "omitempty">>)>>
fragTwo == <<KV("validate", <<"required">>), SP, KV("custom", <<"value">>)>>
fragDb1 == <<KV("db", <<"1">>)>>
fragDb2 == <<KV("db", <<"2">>), SP, KV("form", <<"-">>)>>
fragDup == <<KV("query", <<"p">>), KV("query", <<"q">>)>>
fragBad == <<KV("validate", <<"1">>), BAD>>
fragBlank == <<SP>>

ManualChoices ==
  { NoList, Explicit(<<>>), Explicit(<<fragQuery>>), Explicit(<<fragJson>>),
    Explicit(<<fragDb1, fragDb2>>), Explicit(<<<<>>, fragTwo>>),
    Explicit(<<fragDup>>), Explicit(<<fragBad>>), Explicit(<<fragQuery, fragBad>>),
    Explicit(<<fragBlank>>) }

(* alias tables ParseBindingAliases returns *)
NoAliases == <<>>
AliasChoices ==
  { NoAliases,
    ("query" :> <<"form">>),
    ("query" :> <<"form", "q">>) @@ ("uri" :> <<"path">>),
    ("form" :> <<"json">>),
    ("header" :> <<"header", "db">>),
    ("db" :> <<"database">>) }

LocationOptions == {NoLocation} \cup {Explicit(l) : l \in BindingLocation}

(* one message, one field: every location, auto tags, manual fragments *)
BuilderFiles ==
  { File("builder", <<Message("M", NoLocation, NoList,
        <<Field("a", "A", loc, auto, manual)>>, <<>>, <<>>)>>) :
      loc \in LocationOptions,
      auto \in {NoList, Explicit(<<"db">>), Explicit(<<"form">>), Explicit(<<"", "json">>)},
      manual \in ManualChoices }

(* defaults inherited through two levels of nesting *)
NestedFiles ==
  { File("nested", <<Message("R", rl, ra,
        <<Field("a", "A", fl, fa, NoList)>>, <<>>,
        <<Message("R_N", nl, na,
            <<Field("b", "B", NoLocation, NoList, NoList)>>, <<>>,
            <<Message("R_N_K", NoLocation, NoList,
                <<Field("c", "C", NoLocation, NoList, NoList),
                  Field("d", "D", Explicit(HEADER), NoList, NoList)>>,
                <<>>, <<>>)>>)>>)>>) :
      rl \in {NoLocation, Explicit(BODY), Explicit(QUERY), Explicit(HEADER)},
      ra \in {NoList, Explicit(<<>>), Explicit(<<"db">>)},
      fl \in {NoLocation, Explicit(UNSPECIFIED), Explicit(URI)},
      fa \in {NoList, Explicit(<<"v">>)},
      nl \in {NoLocation, Explicit(BODY), Explicit(FORM)},
      na \in {NoList, Explicit(<<"x">>)} }

(* a message with a plain field and a oneof of two members *)
OneofFiles ==
  { File("oneof", <<Message("R", rl, ra,
        <<Field("a", "A", NoLocation, NoList, NoList),
          Field("m", "M", NoLocation, NoList, NoList),
          Field("n", "N", ml, NoList, mt)>>,
        <<Oneof(gl, ga, <<2, 3>>)>>, <<>>)>>) :
      rl \in LocationOptions \ {Explicit(UNSPECIFIED)},
      ra \in {NoList, Explicit(<<"db">>)},
      gl \in {NoLocation, Explicit(UNSPECIFIED), Explicit(BODY), Explicit(QUERY),
              Explicit(HEADER)},
      ga \in {NoList, Explicit(<<>>), Explicit(<<"g">>)},
      ml \in {NoLocation, Explicit(URI)},
      mt \in {NoList, Explicit(<<fragTwo>>)} }

PlanConfigs ==
  { Config(flag, aliases) : flag \in BOOLEAN, aliases \in AliasChoices }

-----------------------------------------------------------------------------
(* The run *)

NoAst == <<>>
NoDisk == <<>>
NoDir == <<>>
NoOrig == [disk |-> NoDisk, dir |-> NoDir]
IdleWriter ==
  [pc |-> "idle", filename |-> <<>>, perm |-> "", data |-> <<>>, tempName |-> <<>>,
   ino |-> 0, created |-> FALSE, fault |-> "", ret |-> "", before |-> <<>>]
IdleReader == [pc |-> "idle", ino |-> 0, got |-> <<>>, at |-> ""]

(* generateFile, lines 314-317 *)
ExtractFile ==
  /\ pc = "start"
  /\ \E r \in {extractFile(file, config)} :
        /\ tags' = r.tags
        /\ built' = r.calls
        /\ err' = IF r.res = "ok" THEN "" ELSE r.res
        /\ pc' = IF r.res = "ok" THEN "extracted" ELSE "failed"
  /\ UNCHANGED <<file, config, ast, changed, runs, merges, bindingAliases, out, orig, disk, dir, wr, rd>>

-----------------------------------------------------------------------------
(* The merge into the parsed source (ReTagsWithCheck, reTagsInternal) *)

(* the tag keys that occur in plans, in the order of Go's string < *)
KeyOrder ==
  <<"custom", "database", "db", "form", "g", "header", "json", "path", "q",
    "query", "uri", "v", "validate", "x">>

Rank(key) == CHOOSE i \in 1..Len(KeyOrder) : KeyOrder[i] = key

(* Tags.Less *)
Less(a, b) == Rank(a.Key) < Rank(b.Key)

RECURSIVE InsertSorted(_, _)
InsertSorted(sorted, tag) ==
  IF sorted = <<>> THEN <<tag>>
  ELSE IF Less(tag, Head(sorted)) THEN <<tag>> \o sorted
  ELSE <<Head(sorted)>> \o InsertSorted(Tail(sorted), tag)

RECURSIVE SortFrom(_, _)
SortFrom(ts, acc) ==
  IF ts = <<>> THEN acc ELSE SortFrom(Tail(ts), InsertSorted(acc, Head(ts)))

(* sort.Stable(newTags), line 74 *)
SortStable(ts) == SortFrom(ts, <<>>)

(* the source as go/parser returns it *)
SrcField(names, hasTag, tag) == [names |-> names, hasTag |-> hasTag, tag |-> tag]
TypeSpec(name, isStruct, fields) ==
  [isType |-> TRUE, name |-> name, isStruct |-> isStruct, fields |-> fields]
ValueSpec == [isType |-> FALSE, name |-> "", isStruct |-> FALSE, fields |-> <<>>]
GenDecl(specs) == [isGen |-> TRUE, specs |-> specs]
FuncDecl == [isGen |-> FALSE, specs |-> <<>>]

(* lines 33-39: the index of the first type spec of a declaration, or 0 *)
FirstTypeSpec(decl) ==
  IF \E i \in 1..Len(decl.specs) : decl.specs[i].isType
    THEN CHOOSE i \in 1..Len(decl.specs) :
           /\ decl.specs[i].isType
           /\ \A j \in 1..(i - 1) : ~decl.specs[j].isType
    ELSE 0

(* lines 27-53: whether the loop retags the declaration *)
Retagged(decl, plan) ==
  /\ decl.isGen
  /\ FirstTypeSpec(decl) # 0
  /\ decl.specs[FirstTypeSpec(decl)].isStruct
  /\ decl.specs[FirstTypeSpec(decl)].name \in DOMAIN plan

(* a merge state: the outcome so far, the plan (sort.Stable reorders the  *)
(* plan's own tags), the flag, and the texts compared for each member     *)
MergeState(res, plan, chg, log) ==
  [res |-> res, plan |-> plan, changed |-> chg, steps |-> log]

(* the merge that appends the planned tags without looking for their keys *)
ReTagMemberAppend(field, fieldName, structName, st) ==
  LET newTags == st.plan[structName][fieldName]
      oldTags == Parse(IF field.hasTag THEN field.tag ELSE <<>>)
      originalTagValue == TagsString(oldTags.tags)
      newTagValue == TagsString(oldTags.tags \o SortStable(newTags))
  IN [field |-> [field EXCEPT !.hasTag = TRUE, !.tag = newTagValue],
      st |-> MergeState(IF oldTags.err THEN "err"
                        ELSE IF oldTags.isNil THEN "panic" ELSE "ok",
                        st.plan,
                        st.changed \/ originalTagValue # newTagValue,
                        Append(st.steps, <<originalTagValue, newTagValue>>))]

(* the merge that writes the planned tags in place of the existing text *)
ReTagMemberReplaceAll(field, fieldName, structName, st) ==
  LET newTags == st.plan[structName][fieldName]
      oldTags == Parse(IF field.hasTag THEN field.tag ELSE <<>>)
      originalTagValue == TagsString(oldTags.tags)
      newTagValue == TagsString(SortStable(newTags))
  IN [field |-> [field EXCEPT !.hasTag = TRUE, !.tag = newTagValue],
      st |-> MergeState(IF oldTags.err THEN "err"
                        ELSE IF oldTags.isNil THEN "panic" ELSE "ok",
                        st.plan,
                        st.changed \/ originalTagValue # newTagValue,
                        Append(st.steps, <<originalTagValue, newTagValue>>))]

(* the merge that sets the planned tags in the order the plan was built *)
ReTagMemberUnsorted(field, fieldName, structName, st) ==
  LET newTags == st.plan[structName][fieldName]
      oldTags == Parse(IF field.hasTag THEN field.tag ELSE <<>>)
      originalTagValue == TagsString(oldTags.tags)
      newTagValue == TagsString(SetEach(oldTags.tags, newTags))
  IN [field |-> [field EXCEPT !.hasTag = TRUE, !.tag = newTagValue],
      st |-> MergeState(IF oldTags.err THEN "err"
                        ELSE IF oldTags.isNil THEN "panic" ELSE "ok",
                        st.plan,
                        st.changed \/ originalTagValue # newTagValue,
                        Append(st.steps, <<originalTagValue, newTagValue>>))]

(* lines 57-86 for one name of a field that the plan names *)
ReTagMember(field, fieldName, structName, st) ==
  LET newTags == st.plan[structName][fieldName]
      currentTagValue == IF field.hasTag THEN field.tag ELSE <<>>
      oldTags == Parse(currentTagValue)
      originalTagValue == TagsString(oldTags.tags)
      sorted == SortStable(newTags)
      newTagValue == TagsString(SetEach(oldTags.tags, sorted))
      plan == [st.plan EXCEPT ![structName][fieldName] = sorted]
  IN IF oldTags.err
       THEN [field |-> [field EXCEPT !.hasTag = TRUE, !.tag = currentTagValue],
             st |-> MergeState("err", st.plan, st.changed, st.steps)]
     ELSE IF oldTags.isNil
       THEN [field |-> [field EXCEPT !.hasTag = TRUE, !.tag = currentTagValue],
             st |-> MergeState("panic", st.plan, st.changed, st.steps)]
     ELSE [field |-> [field EXCEPT !.hasTag = TRUE, !.tag = newTagValue],
           st |-> MergeState("ok", plan,
                             st.changed \/ originalTagValue # newTagValue,
                             Append(st.steps, <<originalTagValue, newTagValue>>))]

RECURSIVE NamesLoop(_, _, _, _)
NextName(i, structName, r) ==
  IF r.st.res # "ok" THEN r
  ELSE NamesLoop(r.field, i + 1, structName, r.st)

(* lines 56-87: the names of one field *)
NamesLoop(field, i, structName, st) ==
  IF i > Len(field.names) THEN [field |-> field, st |-> st]
  ELSE IF field.names[i] \notin DOMAIN st.plan[structName]
    THEN NamesLoop(field, i + 1, structName, st)
  ELSE NextName(i, structName, ReTagMember(field, field.names[i], structName, st))

RECURSIVE FieldListLoop(_, _, _, _)
NextField(fields, i, structName, r) ==
  IF r.st.res # "ok"
    THEN [fields |-> [fields EXCEPT ![i] = r.field], st |-> r.st]
    ELSE FieldListLoop([fields EXCEPT ![i] = r.field], i + 1, structName, r.st)

(* lines 55-88: the fields of one struct *)
FieldListLoop(fields, i, structName, st) ==
  IF i > Len(fields) THEN [fields |-> fields, st |-> st]
  ELSE NextField(fields, i, structName, NamesLoop(fields[i], 1, structName, st))

RECURSIVE DeclsLoop(_, _, _)
NextDecl(decls, i, k, r) ==
  IF r.st.res # "ok"
    THEN [decls |-> [decls EXCEPT ![i].specs[k].fields = r.fields], st |-> r.st]
    ELSE DeclsLoop([decls EXCEPT ![i].specs[k].fields = r.fields], i + 1, r.st)

(* lines 27-89: the declarations of the file *)
DeclsLoop(decls, i, st) ==
  IF i > Len(decls) THEN [decls |-> decls, st |-> st]
  ELSE IF ~Retagged(decls[i], st.plan) THEN DeclsLoop(decls, i + 1, st)
  ELSE NextDecl(decls, i, FirstTypeSpec(decls[i]),
         FieldListLoop(decls[i].specs[FirstTypeSpec(decls[i])].fields, 1,
                       decls[i].specs[FirstTypeSpec(decls[i])].name, st))

reTagsInternal(decls, plan) == DeclsLoop(decls, 1, MergeState("ok", plan, FALSE, <<>>))

(* ReTagsWithCheck as generateFile calls it, line 344 *)
ReTagsStep ==
  \E r \in {reTagsInternal(ast, tags)} :
     /\ ast' = r.decls
     /\ tags' = r.st.plan
     /\ changed' = r.st.changed
     /\ merges' = Append(merges, [res |-> r.st.res, changed |-> r.st.changed,
                                   texts |-> r.st.steps,
                                   before |-> ast, after |-> r.decls])
     /\ runs' = runs + 1
     /\ err' = IF r.st.res = "ok" THEN "" ELSE r.st.res
     /\ pc' = IF r.st.res = "ok" THEN "merged" ELSE "failed"

ReTagsWithCheck ==
  /\ pc = "parsed"
  /\ ReTagsStep
  /\ UNCHANGED <<file, config, built, bindingAliases, out, orig, disk, dir, wr, rd>>

(* a second call with the same arguments *)
ReTagsAgain ==
  /\ pc = "merged"
  /\ runs < MaxRuns
  /\ ReTagsStep
  /\ UNCHANGED <<file, config, built, bindingAliases, out, orig, disk, dir, wr, rd>>

(* schema units for the merge: message M with field a of every kind and   *)
(* field b bound to a header                                              *)
MergeFiles ==
  { File("merge", <<Message("M", NoLocation, NoList,
        <<Field("a", "A", loc, auto, manual),
          Field("b", "B", Explicit(HEADER), NoList, NoList)>>, <<>>, <<>>)>>) :
      loc \in {NoLocation, Explicit(BODY), Explicit(QUERY), Explicit(FORM)},
      auto \in {NoList, Explicit(<<"db">>), Explicit(<<"x", "form">>)},
      manual \in {NoList, Explicit(<<fragQuery>>), Explicit(<<fragJson>>),
                  Explicit(<<fragDb1, fragDb2>>), Explicit(<<<<>>, fragTwo>>),
                  Explicit(<<fragDup>>)} }

MergeConfigs ==
  { Config(flag, aliases) : flag \in BOOLEAN,
      aliases \in {NoAliases, ("query" :> <<"form", "q">>), ("form" :> <<"json">>)} }

(* tag texts found in the target file *)
textFresh ==
  <<KV("protobuf", <<"bytes", "1", "opt">>), SP, KV("json", <<"a", "omitempty">>)>>
textTagged ==
  <<KV("json", <<"-">>), SP, KV("zz", <<"keep">>), SP, KV("query", <<"old">>), SP,
    KV("aa", <<"first", "opt">>)>>
textMixed ==
  <<KV("db", <<"old">>), SP, KV("validate", <<"x">>), SP, KV("form", <<"old">>)>>
textLoose ==
  <<SP, KV("json", <<"a">>), SP, SP, KV("keep", <<"1">>), KV("json", <<"b">>)>>
textBroken == <<KV("json", <<"a">>), SP, BAD>>
textBlank == <<SP>>

ExistingTags ==
  { SrcField(<<"A">>, FALSE, <<>>) } \cup
  { SrcField(<<"A">>, TRUE, t) :
      t \in {<<>>, textFresh, textTagged, textMixed, textLoose, textBroken, textBlank} }

(* the declarations of a generated file: the struct of message M, a       *)
(* function, a var block, a struct the plan does not name and an          *)
(* interface type                                                         *)
Source(fieldA, fieldB) ==
  << GenDecl(<<ValueSpec>>),
     GenDecl(<<TypeSpec("M", TRUE,
        << SrcField(<<"state">>, TRUE, <<KV("protogen", <<"open.v1">>)>>),
           fieldA,
           fieldB,
           SrcField(<<>>, TRUE, textFresh),
           SrcField(<<"C">>, TRUE, textFresh),
           SrcField(<<"sizeCache">>, FALSE, <<>>) >>)>>),
     FuncDecl,
     GenDecl(<<TypeSpec("Other", TRUE, <<SrcField(<<"A">>, TRUE, textFresh)>>)>>),
     GenDecl(<<TypeSpec("isM_Kind", FALSE, <<>>)>>) >>

Sources ==
  { Source(fa, fb) :
      fa \in ExistingTags,
      fb \in {SrcField(<<"B">>, TRUE, textFresh),
              SrcField(<<"B">>, TRUE, <<KV("header", <<"b">>), SP, KV("json", <<"-">>)>>)} }

(* the state of generateFile after line 340: the plan is built and is not *)
(* empty, the target file is parsed                                       *)
InitMerge ==
  /\ pc = "parsed"
  /\ file \in MergeFiles
  /\ config \in MergeConfigs
  /\ \E r \in {extractFile(file, config)} :
        r.res = "ok" /\ tags = r.tags /\ built = r.calls
  /\ err = ""
  /\ ast \in Sources
  /\ changed = FALSE
  /\ runs = 0
  /\ merges = <<>>
  /\ bindingAliases = <<>>
  /\ out = <<>>
  /\ orig = NoOrig
  /\ disk = NoDisk
  /\ dir = NoDir
  /\ wr = IdleWriter
  /\ rd = IdleReader

NextMerge == ReTagsWithCheck \/ ReTagsAgain

SpecMerge == InitMerge /\ [][NextMerge]_vars

InitPlan ==
  /\ pc = "start"
  /\ file \in BuilderFiles \cup NestedFiles \cup OneofFiles
  /\ config \in IF file.prefix = "builder" THEN PlanConfigs
                ELSE {Config(flag, NoAliases) : flag \in BOOLEAN}
  /\ tags = <<>>
  /\ built = {}
  /\ err = ""
  /\ ast = NoAst
  /\ changed = FALSE
  /\ runs = 0
  /\ merges = <<>>
  /\ bindingAliases = <<>>
  /\ out = <<>>
  /\ orig = NoOrig
  /\ disk = NoDisk
  /\ dir = NoDir
  /\ wr = IdleWriter
  /\ rd = IdleReader

NextPlan == ExtractFile

SpecPlan == InitPlan /\ [][NextPlan]_vars

-----------------------------------------------------------------------------
(* Paths (path/filepath with the separator /): a path is a sequence of    *)
(* characters                                                             *)

Slash == "/"
Dot == <<".">>
DotDot == <<".", ".">>
Suffix == <<".pb.go">>

(* the elements of a path between its separators *)
RECURSIVE SplitFrom(_, _, _, _)
SplitFrom(path, i, cur, acc) ==
  IF i > Len(path) THEN Append(acc, cur)
  ELSE IF path[i] = Slash THEN SplitFrom(path, i + 1, <<>>, Append(acc, cur))
  ELSE SplitFrom(path, i + 1, Append(cur, path[i]), acc)

RECURSIVE CleanFrom(_, _, _, _)
CleanFrom(elems, i, rooted, acc) ==
  IF i > Len(elems) THEN acc
  ELSE IF elems[i] = <<>> \/ elems[i] = Dot THEN CleanFrom(elems, i + 1, rooted, acc)
  ELSE IF elems[i] # DotDot THEN CleanFrom(elems, i + 1, rooted, Append(acc, elems[i]))
  ELSE IF acc # <<>> /\ acc[Len(acc)] # DotDot
    THEN CleanFrom(elems, i + 1, rooted, SubSeq(acc, 1, Len(acc) - 1))
  ELSE IF rooted THEN CleanFrom(elems, i + 1, rooted, acc)
  ELSE CleanFrom(elems, i + 1, rooted, Append(acc, DotDot))

RECURSIVE JoinFrom(_, _)
JoinFrom(elems, i) ==
  IF i > Len(elems) THEN <<>>
  ELSE (IF i > 1 THEN <<Slash>> ELSE <<>>) \o elems[i] \o JoinFrom(elems, i + 1)

Rooted(path) == path # <<>> /\ path[1] = Slash

CleanEnd(rooted, body) ==
  IF rooted THEN <<Slash>> \o body ELSE IF body = <<>> THEN Dot ELSE body

(* filepath.Clean *)
Clean(path) ==
  CleanEnd(Rooted(path),
           JoinFrom(CleanFrom(SplitFrom(path, 1, <<>>, <<>>), 1, Rooted(path), <<>>), 1))

(* filepath.Join of two elements *)
Join(a, b) ==
  IF a = <<>> /\ b = <<>> THEN <<>>
  ELSE IF a = <<>> THEN Clean(b)
  ELSE IF b = <<>> THEN Clean(a)
  ELSE Clean(a \o <<Slash>> \o b)

(* strings.HasPrefix *)
HasPrefix(s, prefix) ==
  Len(s) >= Len(prefix) /\ SubSeq(s, 1, Len(prefix)) = prefix

(* the index of the last separator of a path, or 0 *)
LastSlash(path) ==
  IF \E i \in 1..Len(path) : path[i] = Slash
    THEN CHOOSE i \in 1..Len(path) :
           path[i] = Slash /\ \A j \in (i + 1)..Len(path) : path[j] # Slash
    ELSE 0

(* filepath.Dir *)
Dir(path) == Clean(SubSeq(path, 1, LastSlash(path)))

(* the name os.CreateTemp picks in the directory of the target *)
TempName(filename) == Dir(filename) \o <<Slash, ".tmp-1.pb.go">>

-----------------------------------------------------------------------------
(* The output directory *)

Inode(data, perm) == [data |-> data, perm |-> perm]

(* a block of file content: the text of one declaration, or text that is  *)
(* not Go                                                                 *)
Block(decl) == [ok |-> TRUE, decl |-> decl]
Garbage == [ok |-> FALSE, decl |-> FuncDecl]

(* printer.Fprint and format.Source: the declarations as text *)
Printed(decls) == [i \in 1..Len(decls) |-> Block(decls[i])]

(* parser.ParseFile *)
ParseSource(data) ==
  [err |-> \E i \in 1..Len(data) : ~data[i].ok,
   decls |-> [i \in 1..Len(data) |-> data[i].decl]]

(* the write that opens the target file itself and truncates it *)
osCreateOnTarget(entries, inodes, filename) ==
  [dir |-> [n \in DOMAIN entries \cup {TempName(filename)} |-> entries[filename]],
   disk |-> [inodes EXCEPT ![entries[filename]].data = <<>>],
   ino |-> entries[filename]]

(* os.CreateTemp, line 288: a new file under a fresh name, mode 0600 *)
osCreateTemp(entries, inodes, filename) ==
  [dir |-> [n \in DOMAIN entries \cup {TempName(filename)} |->
              IF n \in DOMAIN entries THEN entries[n] ELSE Len(inodes) + 1],
   disk |-> Append(inodes, Inode(<<>>, "0600")),
   ino |-> Len(inodes) + 1]

(* a cleanup that leaves the entry *)
osRemoveNothing(entries, name) == entries

(* os.Remove, line 294 *)
osRemove(entries, name) == [n \in DOMAIN entries \ {name} |-> entries[n]]

(* os.Rename, line 307 *)
osRename(entries, from, to) ==
  [n \in (DOMAIN entries \ {from}) \cup {to} |->
     IF n = to THEN entries[from] ELSE entries[n]]

-----------------------------------------------------------------------------
(* generateFile from the plan to the write *)

(* lines 318-320 *)
CheckPlan ==
  /\ pc = "extracted"
  /\ pc' = IF DOMAIN tags = {} THEN "done" ELSE "planned"
  /\ UNCHANGED <<file, config, tags, built, err, ast, changed, runs, merges,
                 bindingAliases, out, orig, disk, dir, wr, rd>>

(* line 324 *)
Filename(o, f) == Join(Clean(o), f.prefix \o Suffix)

(* lines 323-327 *)
CheckPath ==
  /\ pc = "planned"
  /\ IF HasPrefix(Clean(Filename(out, file)), Clean(out))
       THEN /\ pc' = "checked"
            /\ wr' = [wr EXCEPT !.filename = Filename(out, file)]
            /\ err' = err
       ELSE /\ pc' = "failed"
            /\ err' = "invalid file path"
            /\ wr' = wr
  /\ UNCHANGED <<file, config, tags, built, ast, changed, runs, merges,
                 bindingAliases, out, orig, disk, dir, rd>>

(* lines 330-334 *)
Stat ==
  /\ pc = "checked"
  /\ IF wr.filename \in DOMAIN dir
       THEN /\ pc' = "stated"
            /\ wr' = [wr EXCEPT !.perm = disk[dir[wr.filename]].perm]
            /\ err' = err
       ELSE /\ pc' = "failed"
            /\ err' = "stat"
            /\ wr' = wr
  /\ UNCHANGED <<file, config, tags, built, ast, changed, runs, merges,
                 bindingAliases, out, orig, disk, dir, rd>>

(* lines 336-340 *)
ParseFile ==
  /\ pc = "stated"
  /\ \E r \in {ParseSource(disk[dir[wr.filename]].data)} :
       IF r.err
         THEN pc' = "failed" /\ err' = "parse" /\ ast' = ast
         ELSE pc' = "parsed" /\ err' = err /\ ast' = r.decls
  /\ UNCHANGED <<file, config, tags, built, changed, runs, merges,
                 bindingAliases, out, orig, disk, dir, wr, rd>>

(* a gate that lets every merge through to the write *)
NoChangeNever(chg) == FALSE

(* line 348 *)
NoChange(chg) == ~chg

(* lines 348-350 *)
CheckChanged ==
  /\ pc = "merged"
  /\ pc' = IF NoChange(changed) THEN "done" ELSE "changed"
  /\ UNCHANGED <<file, config, tags, built, err, ast, changed, runs, merges,
                 bindingAliases, out, orig, disk, dir, wr, rd>>

(* lines 352-363: print, format and enter writeFileAtomic *)
PrintSource ==
  /\ pc = "changed"
  /\ pc' = "writing"
  /\ wr' = [wr EXCEPT !.pc = "create", !.data = Printed(ast),
                      !.before = disk[dir[wr.filename]].data]
  /\ UNCHANGED <<file, config, tags, built, err, ast, changed, runs, merges,
                 bindingAliases, out, orig, disk, dir, rd>>

-----------------------------------------------------------------------------
(* writeFileAtomic, one action per system call; each call can fail *)

Fail(step) == [wr EXCEPT !.pc = "return", !.fault = step, !.ret = step]

(* lines 288-295 *)
CreateTemp ==
  /\ pc = "writing" /\ wr.pc = "create"
  /\ \E fail \in BOOLEAN :
       IF fail
         THEN wr' = Fail("create") /\ UNCHANGED <<disk, dir>>
         ELSE \E r \in {osCreateTemp(dir, disk, wr.filename)} :
                /\ dir' = r.dir
                /\ disk' = r.disk
                /\ wr' = [wr EXCEPT !.pc = "write", !.tempName = TempName(wr.filename),
                                    !.ino = r.ino, !.created = TRUE]
  /\ UNCHANGED <<pc, file, config, tags, built, err, ast, changed, runs, merges,
                 bindingAliases, out, orig, rd>>

(* lines 296-299: the data reaches the file block by block; a failed      *)
(* write closes the file and returns the write's error                    *)
Write ==
  /\ pc = "writing" /\ wr.pc = "write"
  /\ \E fail \in BOOLEAN :
       IF fail
         THEN wr' = Fail("write") /\ disk' = disk
       ELSE IF Len(disk[wr.ino].data) < Len(wr.data)
         THEN /\ disk' = [disk EXCEPT ![wr.ino].data =
                            Append(@, wr.data[Len(@) + 1])]
              /\ wr' = wr
       ELSE wr' = [wr EXCEPT !.pc = "close"] /\ disk' = disk
  /\ UNCHANGED <<pc, file, config, tags, built, err, ast, changed, runs, merges,
                 bindingAliases, out, orig, dir, rd>>

(* lines 300-302 *)
Close ==
  /\ pc = "writing" /\ wr.pc = "close"
  /\ \E fail \in BOOLEAN :
       wr' = IF fail THEN Fail("close") ELSE [wr EXCEPT !.pc = "chmod"]
  /\ UNCHANGED <<pc, file, config, tags, built, err, ast, changed, runs, merges,
                 bindingAliases, out, orig, disk, dir, rd>>

(* lines 303-305 *)
Chmod ==
  /\ pc = "writing" /\ wr.pc = "chmod"
  /\ \E fail \in BOOLEAN :
       IF fail
         THEN wr' = Fail("chmod") /\ disk' = disk
         ELSE /\ wr' = [wr EXCEPT !.pc = "rename"]
              /\ disk' = [disk EXCEPT ![dir[wr.tempName]].perm = wr.perm]
  /\ UNCHANGED <<pc, file, config, tags, built, err, ast, changed, runs, merges,
                 bindingAliases, out, orig, dir, rd>>

(* lines 307-310 *)
Rename ==
  /\ pc = "writing" /\ wr.pc = "rename"
  /\ \E fail \in BOOLEAN :
       IF fail
         THEN wr' = Fail("rename") /\ dir' = dir
         ELSE /\ wr' = [wr EXCEPT !.pc = "return", !.ret = ""]
              /\ dir' = osRename(dir, wr.tempName, wr.filename)
  /\ UNCHANGED <<pc, file, config, tags, built, err, ast, changed, runs, merges,
                 bindingAliases, out, orig, disk, rd>>

(* the return of writeFileAtomic with its deferred os.Remove (lines       *)
(* 293-295), and of generateFile (line 363)                               *)
Return ==
  /\ pc = "writing" /\ wr.pc = "return"
  /\ dir' = IF wr.created THEN osRemove(dir, wr.tempName) ELSE dir
  /\ wr' = [wr EXCEPT !.pc = "returned"]
  /\ err' = wr.ret
  /\ pc' = IF wr.ret = "" THEN "done" ELSE "failed"
  /\ UNCHANGED <<file, config, tags, built, ast, changed, runs, merges,
                 bindingAliases, out, orig, disk, rd>>

-----------------------------------------------------------------------------
(* A reader of the target file in another process *)

ReadOpen ==
  /\ rd.pc = "idle"
  /\ Filename(out, file) \in DOMAIN dir
  /\ rd' = [rd EXCEPT !.pc = "reading", !.ino = dir[Filename(out, file)], !.at = wr.pc]
  /\ UNCHANGED <<pc, file, config, tags, built, err, ast, changed, runs, merges,
                 bindingAliases, out, orig, disk, dir, wr>>

(* one read call: the next block, or the end of the file *)
Read ==
  /\ rd.pc = "reading"
  /\ rd' = IF Len(rd.got) < Len(disk[rd.ino].data)
             THEN [rd EXCEPT !.got = Append(@, disk[rd.ino].data[Len(@) + 1])]
             ELSE [rd EXCEPT !.pc = "done"]
  /\ UNCHANGED <<pc, file, config, tags, built, err, ast, changed, runs, merges,
                 bindingAliases, out, orig, disk, dir, wr>>

-----------------------------------------------------------------------------
(* The run of generateFile over one schema unit and one output directory *)

(* schema units: message M whose field a is plain, bound, bound with a    *)
(* manual json tag, or carries a malformed or blank manual tag, and whose *)
(* field b is plain or bound to a header; units whose file name leaves    *)
(* the output directory, names a sibling directory or a subdirectory      *)
Unit(prefix, fieldA, fieldB) ==
  File(prefix, <<Message("M", NoLocation, NoList, <<fieldA, fieldB>>, <<>>, <<>>)>>)

UnitFiles ==
  { Unit(<<"m">>, Field("a", "A", a[1], NoList, a[2]), Field("b", "B", b, NoList, NoList)) :
      a \in { <<NoLocation, NoList>>, <<Explicit(QUERY), NoList>>,
              <<Explicit(QUERY), Explicit(<<fragJson>>)>>,
              <<NoLocation, Explicit(<<fragBad>>)>> },
      b \in {NoLocation, Explicit(HEADER)} }
  \cup
  { Unit(stem, Field("a", "A", Explicit(QUERY), NoList, NoList),
         Field("b", "B", NoLocation, NoList, NoList)) :
      stem \in { <<".", ".", "/", "m">>,
                 <<".", ".", "/", "a", "p", "i", "2", "/", "m">>,
                 <<"s", "u", "b", "/", "m">> } }
  \cup
  { Unit(<<"m">>, Field("a", "A", Explicit(QUERY), NoList, Explicit(<<fragBlank>>)),
         Field("b", "B", NoLocation, NoList, NoList)) }

UnitConfigs ==
  { Config(TRUE, NoAliases), Config(FALSE, ("query" :> <<"form">>)) }

OutChoices == { <<"a", "p", "i">>, <<".", "/", "a", "p", "i", "/">>, <<".">> }

textMerged ==
  <<KV("protobuf", <<"bytes", "1", "opt">>), SP, KV("json", <<"-">>), SP,
    KV("query", <<"a">>), SP, KV("form", <<"a">>)>>
textHeader == <<KV("header", <<"b">>), SP, KV("json", <<"-">>)>>

UnitSources ==
  { Source(SrcField(<<"A">>, TRUE, ta), SrcField(<<"B">>, TRUE, tb)) :
      ta \in {textFresh, textMerged, textBlank, textBroken},
      tb \in {textFresh, textHeader} }

Contents ==
  { Printed(src) : src \in UnitSources } \cup { <<Block(FuncDecl), Garbage>> }

Perms == {"0644", "0600"}

(* the output directory before the run: the target file is there or not *)
Directories(filename) ==
  { [disk |-> <<Inode(data, perm)>>,
     dir |-> [n \in {filename} |-> 1]] : data \in Contents, perm \in Perms }
  \cup { NoOrig }

InitFile ==
  /\ pc = "start"
  /\ file \in UnitFiles
  /\ config \in UnitConfigs
  /\ bindingAliases = <<>>
  /\ out \in OutChoices
  /\ orig \in Directories(Filename(out, file))
  /\ disk = orig.disk
  /\ dir = orig.dir
  /\ tags = <<>>
  /\ built = {}
  /\ err = ""
  /\ ast = NoAst
  /\ changed = FALSE
  /\ runs = 0
  /\ merges = <<>>
  /\ wr = IdleWriter
  /\ rd = IdleReader

NextFile ==
  \/ ExtractFile
  \/ CheckPlan
  \/ CheckPath
  \/ Stat
  \/ ParseFile
  \/ ReTagsWithCheck
  \/ CheckChanged
  \/ PrintSource
  \/ CreateTemp
  \/ Write
  \/ Close
  \/ Chmod
  \/ Rename
  \/ Return
  \/ ReadOpen
  \/ Read

SpecFile == InitFile /\ [][NextFile]_vars

-----------------------------------------------------------------------------
(* The alias configuration (ValidateTagKey, ParseBindingAliases, main): a *)
(* configuration string is a sequence of characters                       *)

(* longest configuration string drawn from the whole alphabet *)
MaxAliasLen == 5

Comma == ","
Equals == "="
Space == " "
Tab == "\t"
Newline == "\n"
CarriageReturn == "\r"
FormFeed == "\f"
Colon == ":"
Backtick == "backtick"
Quote == "quote"

(* the white space strings.TrimSpace removes: the characters of the       *)
(* check of line 237 and those only unicode.IsSpace knows, such as the    *)
(* form feed                                                              *)
IsSpace(c) == c \in {Space, Tab, Newline, CarriageReturn, FormFeed}

(* the second argument of strings.ContainsAny, line 237 *)
IllegalChars == {Space, Tab, Newline, CarriageReturn, Backtick, Colon, Quote}

(* strings.TrimSpace *)
RECURSIVE TrimLeft(_)
TrimLeft(str) ==
  IF str # <<>> /\ IsSpace(Head(str)) THEN TrimLeft(Tail(str)) ELSE str

RECURSIVE TrimRight(_)
TrimRight(str) ==
  IF str # <<>> /\ IsSpace(str[Len(str)])
    THEN TrimRight(SubSeq(str, 1, Len(str) - 1)) ELSE str

TrimSpace(str) == TrimRight(TrimLeft(str))

(* strings.Split with a separator of one character *)
RECURSIVE SplitAt(_, _, _, _, _)
SplitAt(str, sep, i, cur, acc) ==
  IF i > Len(str) THEN Append(acc, cur)
  ELSE IF str[i] = sep THEN SplitAt(str, sep, i + 1, <<>>, Append(acc, cur))
  ELSE SplitAt(str, sep, i + 1, Append(cur, str[i]), acc)

Split(str, sep) == SplitAt(str, sep, 1, <<>>, <<>>)

(* strings.ContainsAny *)
ContainsAny(str, chars) == \E i \in 1..Len(str) : str[i] \in chars

(* ValidateTagKey, lines 233-241: "" is nil *)
ValidateTagKey(key) ==
  IF Len(key) = 0 THEN "tag key cannot be empty"
  ELSE IF ContainsAny(key, IllegalChars) THEN "illegal characters"
  ELSE ""

AliasError(reason) == [err |-> reason, isNil |-> TRUE, aliases |-> NoAliases]

(* line 272: aliases[key] = append(aliases[key], value) *)
PutAlias(aliases, key, value) ==
  [k \in DOMAIN aliases \cup {key} |->
     IF k \notin DOMAIN aliases THEN <<value>>
     ELSE IF k = key THEN Append(aliases[k], value)
     ELSE aliases[k]]

RECURSIVE AliasLoop(_, _, _)
(* lines 264-272 *)
AliasChecked(entries, i, aliases, key, value) ==
  IF ValidateTagKey(key) # "" THEN AliasError(ValidateTagKey(key))
  ELSE IF ValidateTagKey(value) # "" THEN AliasError(ValidateTagKey(value))
  ELSE AliasLoop(entries, i + 1, PutAlias(aliases, key, value))

(* lines 256-262 *)
AliasPair(entries, i, aliases, kv) ==
  IF Len(kv) # 2 THEN AliasError("invalid binding alias format")
  ELSE AliasChecked(entries, i, aliases, TrimSpace(kv[1]), TrimSpace(kv[2]))

(* lines 251-254 *)
AliasEntry(entries, i, aliases, alias) ==
  IF Len(alias) = 0 THEN AliasLoop(entries, i + 1, aliases)
  ELSE AliasPair(entries, i, aliases, Split(alias, Equals))

(* lines 250-273 *)
AliasLoop(entries, i, aliases) ==
  IF i > Len(entries) THEN [err |-> "", isNil |-> FALSE, aliases |-> aliases]
  ELSE AliasEntry(entries, i, aliases, TrimSpace(entries[i]))

(* ParseBindingAliases, lines 244-276 *)
ParseBindingAliases(aliasStr) ==
  IF aliasStr = <<>> THEN [err |-> "", isNil |-> FALSE, aliases |-> NoAliases]
  ELSE AliasLoop(Split(aliasStr, Comma), 1, NoAliases)

(* main, lines 122-125 and the first GenerateFile call of 127-138: the    *)
(* run returns the error of the configuration or goes on to the units     *)
ParseAliases ==
  /\ pc = "main"
  /\ \E r \in {ParseBindingAliases(bindingAliases)} :
       IF r.err # ""
         THEN pc' = "failed" /\ err' = r.err /\ config' = config
         ELSE /\ pc' = "start"
              /\ err' = err
              /\ config' = [config EXCEPT !.BindingAliases = r.aliases]
  /\ UNCHANGED <<file, tags, built, ast, changed, runs, merges,
                 bindingAliases, out, orig, disk, dir, wr, rd>>

AliasAlphabet == {"q", Comma, Equals, Space, FormFeed, Colon}

(* every string over the alphabet up to the bound *)
RECURSIVE StringsUpTo(_)
StringsUpTo(n) ==
  IF n = 0 THEN {<<>>}
  ELSE StringsUpTo(n - 1)
         \cup {Append(str, c) : str \in {x \in StringsUpTo(n - 1) : Len(x) = n - 1},
                                c \in AliasAlphabet}

(* longer configurations: several entries and keys, the other illegal     *)
(* characters                                                             *)
LongerStrings ==
  { <<"q", "=", "f", ",", "q", "=", "q">>,
    <<"q", "=", "f", ",", "f", "=", "q", ",", "q", "=", "g">>,
    <<"q", "=", "f", ",", " ", ",", " ", "f", " ", "=", " ", "q", " ">>,
    <<"q", "=", "f", ",", "q", "q", "=", "f", "=">>,
    <<"q", "=", "f", ",", "q", Backtick, "=", "f">>,
    <<"q", "=", "f", ",", "q", "=", Quote, "f", Quote>>,
    <<"q", Tab, "q", "=", "f">>,
    <<"q", "=", "f", Newline, "f">>,
    <<"q", "=", "f", CarriageReturn>> }

AliasStrings == StringsUpTo(MaxAliasLen) \cup LongerStrings

(* a unit without binding locations: its plan does not read the table *)
AliasUnits ==
  { Unit(<<"m">>, Field("a", "A", NoLocation, Explicit(<<"db">>), NoList),
         Field("b", "B", NoLocation, NoList, NoList)) }

InitAlias ==
  /\ pc = "main"
  /\ bindingAliases \in AliasStrings
  /\ file \in AliasUnits
  /\ config = Config(TRUE, NoAliases)
  /\ out = <<"a", "p", "i">>
  /\ orig = NoOrig
  /\ disk = NoDisk
  /\ dir = NoDir
  /\ tags = <<>>
  /\ built = {}
  /\ err = ""
  /\ ast = NoAst
  /\ changed = FALSE
  /\ runs = 0
  /\ merges = <<>>
  /\ wr = IdleWriter
  /\ rd = IdleReader

NextAlias == ParseAliases \/ ExtractFile

SpecAlias == InitAlias /\ [][NextAlias]_vars

-----------------------------------------------------------------------------
(* Properties of the plan *)

RECURSIVE NearestLocation(_)
(* the location of the first bag, innermost first, that sets one *)
NearestLocation(bags) ==
  IF bags = <<>> THEN UNSPECIFIED
  ELSE IF Head(bags).hasLocation THEN Head(bags).location
  ELSE NearestLocation(Tail(bags))

RECURSIVE NearestAutoTags(_)
NearestAutoTags(bags) ==
  IF bags = <<>> THEN <<>>
  ELSE IF Head(bags).hasAutoTags THEN Head(bags).autoTags
  ELSE NearestAutoTags(Tail(bags))

RECURSIVE MessagesUnder(_, _)
(* a message and every message nested in it, each with its ancestors *)
MessagesUnder(message, ancestors) ==
  {[msg |-> message, chain |-> <<message>> \o ancestors]} \cup
  UNION {MessagesUnder(message.messages[j], <<message>> \o ancestors) :
           j \in 1..Len(message.messages)}

AllMessages ==
  UNION {MessagesUnder(file.messages[i], <<>>) : i \in 1..Len(file.messages)}

IsMember(g, i) == \E j \in 1..Len(g.fields) : g.fields[j] = i

(* the variant group holding field i of the message, as a list of 0 or 1 *)
GroupsOf(message, i) == SelectSeq(message.oneofs, LAMBDA g : IsMember(g, i))

(* the option bags above field i, innermost first *)
BagsAbove(rec, i) == GroupsOf(rec.msg, i) \o rec.chain

(* the entries the plan holds for a field: none when it is not named *)
Recorded(m, g) ==
  IF m \in DOMAIN tags /\ g \in DOMAIN tags[m] THEN tags[m][g] ELSE <<>>

EntrySet(ts) == {ts[i] : i \in 1..Len(ts)}
KeysOf(ts) == {ts[i].Key : i \in 1..Len(ts)}
Position(ts, key) == CHOOSE i \in 1..Len(ts) : ts[i].Key = key

(* C1: every field's entries in the plan are those built from the pair    *)
(* whose components are the nearest explicit option among the field, its  *)
(* variant group, its message and the message's ancestors; UNSPECIFIED    *)
(* and no auto tags when nothing sets them.                               *)
C1_NearestExplicitOptionWins ==
  pc = "extracted" =>
    \A rec \in AllMessages : \A i \in 1..Len(rec.msg.fields) :
      LET f == rec.msg.fields[i]
          bags == <<f>> \o BagsAbove(rec, i)
      IN Recorded(rec.msg.goName, f.goName) =
           BuildEntries(f, NearestLocation(bags), NearestAutoTags(bags), config).tags

(* C8: a member of a variant group without options of its own is recorded *)
(* with the entries built from the group's pair: the group's explicit     *)
(* default in place of the message's, component by component.             *)
C8_GroupMemberUsesGroupPair ==
  pc = "extracted" =>
    \A rec \in AllMessages : \A g \in EntrySet(rec.msg.oneofs) :
      \A j \in 1..Len(g.fields) :
        LET f == rec.msg.fields[g.fields[j]]
            mLoc == NearestLocation(rec.chain)
            mAuto == NearestAutoTags(rec.chain)
            gLoc == IF g.hasLocation THEN g.location ELSE mLoc
            gAuto == IF g.hasAutoTags THEN g.autoTags ELSE mAuto
        IN (~f.hasLocation /\ ~f.hasAutoTags /\ ~f.hasTags) =>
             Recorded(rec.msg.goName, f.goName) =
               BuildEntries(f, gLoc, gAuto, config).tags

(* the entries of the manual fragments of a field, in order *)
RECURSIVE ManualTokens(_)
ManualTokens(fragments) ==
  IF fragments = <<>> THEN <<>>
  ELSE SelectSeq(Head(fragments), LAMBDA tok : tok.t = "kv")
         \o ManualTokens(Tail(fragments))

ManualKeys(f) == IF f.hasTags THEN KeysOf(ManualTokens(f.tags)) ELSE {}
AutoKeys(autoTags) == EntrySet(autoTags) \ {""}

(* the metadata key of a location, as the specification names it *)
LocationKey(location) ==
  CASE location = QUERY -> "query"
    [] location = URI -> "uri"
    [] location = FORM -> "form"
    [] location = HEADER -> "header"
    [] OTHER -> ""

AliasesOf(cfg, k) ==
  IF k \in DOMAIN cfg.BindingAliases THEN cfg.BindingAliases[k] ELSE <<>>

HasNamed(b, key) ==
  \E e \in EntrySet(b.tags) : e.Key = key /\ e.Name = b.field.name /\ e.Options = <<>>

(* C9 as stated: the location key and each of its aliases carry the bare  *)
(* field name unless a manual tag overrides the key, the aliases follow   *)
(* the location key in alias-table order, and aliases of other keys add   *)
(* nothing.                                                               *)
C9_AliasFanOutAsStated ==
  \A b \in built :
    LET k == LocationKey(b.location)
        al == AliasesOf(config, k)
        own == {k} \cup EntrySet(al)
    IN /\ k # "" =>
            /\ \A key \in own : key \notin ManualKeys(b.field) => HasNamed(b, key)
            /\ \A i \in 1..Len(al) :
                 al[i] # k => Position(b.tags, k) < Position(b.tags, al[i])
            /\ \A i, j \in 1..Len(al) :
                 (i < j /\ al[i] # al[j] /\ al[i] # k /\ al[j] # k) =>
                   Position(b.tags, al[i]) < Position(b.tags, al[j])
       /\ KeysOf(b.tags) \subseteq
            AutoKeys(b.autoTags) \cup ManualKeys(b.field)
              \cup (IF k # "" THEN own ELSE {})
              \cup (IF k # "" /\ config.AutoRemoveJson THEN {"json"} ELSE {})

(* C9 amended: the exception also covers the key json when the flag sets  *)
(* json:"-" after the aliases, and the order is that of the aliases that  *)
(* no auto tag had set before the location key.                           *)
C9_AliasFanOut ==
  \A b \in built :
    LET k == LocationKey(b.location)
        al == AliasesOf(config, k)
        own == {k} \cup EntrySet(al)
        early == AutoKeys(b.autoTags)
    IN /\ k # "" =>
            /\ \A key \in own :
                 (key \notin ManualKeys(b.field)
                    /\ ~(key = "json" /\ config.AutoRemoveJson)) => HasNamed(b, key)
            /\ \A key \in own : key \in KeysOf(b.tags)
            /\ \A i \in 1..Len(al) :
                 (al[i] # k /\ al[i] \notin early) =>
                   Position(b.tags, k) < Position(b.tags, al[i])
            /\ \A i, j \in 1..Len(al) :
                 (i < j /\ al[i] # al[j] /\ al[i] # k /\ al[j] # k
                    /\ al[i] \notin early /\ al[j] \notin early) =>
                   Position(b.tags, al[i]) < Position(b.tags, al[j])
       /\ KeysOf(b.tags) \subseteq
            AutoKeys(b.autoTags) \cup ManualKeys(b.field)
              \cup (IF k # "" THEN own ELSE {})
              \cup (IF k # "" /\ config.AutoRemoveJson THEN {"json"} ELSE {})

C9_Witness ==
  \E b \in built :
    /\ b.location = QUERY
    /\ config.BindingAliases = ("query" :> <<"form", "q">>) @@ ("uri" :> <<"path">>)
    /\ b.tags = <<Tag("query", b.field.name, <<>>), Tag("form", b.field.name, <<>>),
                  Tag("q", b.field.name, <<>>)>>

NoManualTags(f) == ~f.hasTags \/ \A j \in 1..Len(f.tags) : f.tags[j] = <<>>

-----------------------------------------------------------------------------
(* Properties of the merge *)

TextOf(field) == IF field.hasTag THEN field.tag ELSE <<>>

(* whether the merge retags field i of spec k of the declaration *)
Named(decl, k, field) ==
  /\ Retagged(decl, tags)
  /\ k = FirstTypeSpec(decl)
  /\ EntrySet(field.names) \cap DOMAIN tags[decl.specs[k].name] # {}

(* the keys the plan holds for a field declaration *)
PlannedKeys(structName, field) ==
  UNION {KeysOf(tags[structName][n]) :
           n \in EntrySet(field.names) \cap DOMAIN tags[structName]}

(* the entries of a text whose keys are not among keys, in order *)
Unplanned(text, keys) ==
  SelectSeq(Parse(text).tags, LAMBDA e : e.Key \notin keys)

C3_NonDestructive ==
  \A r \in 1..Len(merges) :
    LET m == merges[r]
    IN /\ Len(m.after) = Len(m.before)
       /\ \A d \in 1..Len(m.before) :
            /\ m.after[d].isGen = m.before[d].isGen
            /\ Len(m.after[d].specs) = Len(m.before[d].specs)
            /\ \A k \in 1..Len(m.before[d].specs) :
                 LET sb == m.before[d].specs[k]
                     sa == m.after[d].specs[k]
                 IN /\ [sa EXCEPT !.fields = <<>>] = [sb EXCEPT !.fields = <<>>]
                    /\ Len(sa.fields) = Len(sb.fields)
                    /\ \A i \in 1..Len(sb.fields) :
                         /\ sa.fields[i].names = sb.fields[i].names
                         /\ ~Named(m.before[d], k, sb.fields[i]) =>
                              sa.fields[i] = sb.fields[i]
                         /\ (Named(m.before[d], k, sb.fields[i]) /\ m.res = "ok") =>
                              Unplanned(TextOf(sa.fields[i]),
                                        PlannedKeys(sb.name, sb.fields[i]))
                                = Unplanned(TextOf(sb.fields[i]),
                                            PlannedKeys(sb.name, sb.fields[i]))

C3_Witness ==
  /\ Len(merges) >= 1
  /\ merges[1].res = "ok" /\ merges[1].changed
  /\ merges[1].before[2].specs[1].fields[2].tag = textTagged
  /\ "query" \in PlannedKeys("M", merges[1].before[2].specs[1].fields[2])
  /\ Unplanned(TextOf(merges[1].after[2].specs[1].fields[2]),
               PlannedKeys("M", merges[1].before[2].specs[1].fields[2])) # <<>>

(* the last manual entry of a field for a key *)
LastManual(f, k) ==
  LET toks == ManualTokens(f.tags)
      i == CHOOSE n \in 1..Len(toks) :
             toks[n].Key = k /\ \A j \in (n + 1)..Len(toks) : toks[j].Key # k
  IN Tag(k, Head(toks[i].Val), Tail(toks[i].Val))

(* the schema fields that a name of a struct's field stands for *)
SchemaFields(structName, names) ==
  UNION {{rec.msg.fields[i] : i \in {n \in 1..Len(rec.msg.fields) :
                                      rec.msg.fields[n].goName \in EntrySet(names)}} :
           rec \in {x \in AllMessages : x.msg.goName = structName}}

(* C4: for every key of a field's manual fragments, the built entry set   *)
(* holds the value of the last manual entry for that key, whatever was    *)
(* set for the key before (json:"-" included), and so does the field's    *)
(* annotation text after the merge.                                       *)
C4_ManualOverrideWins ==
  /\ \A b \in built : \A k \in ManualKeys(b.field) :
       /\ Cardinality({i \in 1..Len(b.tags) : b.tags[i].Key = k}) = 1
       /\ b.tags[Position(b.tags, k)] = LastManual(b.field, k)
  /\ \A r \in 1..Len(merges) : merges[r].res = "ok" =>
       \A d \in 1..Len(merges[r].after) :
         \A s \in 1..Len(merges[r].after[d].specs) :
           \A i \in 1..Len(merges[r].after[d].specs[s].fields) :
             LET decl == merges[r].after[d]
                 fld == decl.specs[s].fields[i]
                 now == Parse(TextOf(fld)).tags
             IN Named(decl, s, fld) =>
                  \A f \in SchemaFields(decl.specs[s].name, fld.names) :
                    \A k \in ManualKeys(f) :
                      /\ k \in KeysOf(now)
                      /\ \A e \in EntrySet(now) : e.Key = k => e = LastManual(f, k)

C4_Witness ==
  /\ Len(merges) >= 1 /\ merges[1].res = "ok"
  /\ config.AutoRemoveJson
  /\ \E b \in built :
       /\ b.location = QUERY
       /\ b.field.tags = <<fragJson>>
       /\ Tag("json", "n", <<"omitempty">>) \in EntrySet(b.tags)
  /\ KV("json", <<"n", "omitempty">>)
       \in EntrySet(TextOf(merges[1].after[2].specs[1].fields[2]))
  /\ KV("json", <<"a", "omitempty">>)
       \in EntrySet(TextOf(merges[1].before[2].specs[1].fields[2]))

-----------------------------------------------------------------------------
(* Properties of the alias configuration *)

(* the entries of a configuration string: its comma-separated parts       *)
(* without surrounding white space, the empty ones left out               *)
RECURSIVE TrimEach(_)
TrimEach(parts) ==
  IF parts = <<>> THEN <<>> ELSE <<TrimSpace(Head(parts))>> \o TrimEach(Tail(parts))

AliasEntries(str) == SelectSeq(TrimEach(Split(str, Comma)), LAMBDA e : e # <<>>)

EntryKey(e) == TrimSpace(Split(e, Equals)[1])
EntryValue(e) == TrimSpace(Split(e, Equals)[2])

(* white space, backtick, colon or double quote *)
Forbidden(c) == IsSpace(c) \/ c \in {Backtick, Colon, Quote}

PlainWord(word) == word # <<>> /\ \A i \in 1..Len(word) : ~Forbidden(word[i])

(* key=value with exactly one =, key and value not empty and free of      *)
(* forbidden characters                                                   *)
WellFormed(e) ==
  /\ Len(Split(e, Equals)) = 2
  /\ PlainWord(EntryKey(e))
  /\ PlainWord(EntryValue(e))

RECURSIVE ValuesOf(_, _)
ValuesOf(entries, key) ==
  IF entries = <<>> THEN <<>>
  ELSE (IF EntryKey(Head(entries)) = key THEN <<EntryValue(Head(entries))>> ELSE <<>>)
         \o ValuesOf(Tail(entries), key)

(* the table of a configuration whose entries are all well formed *)
TableOf(entries) ==
  [k \in {EntryKey(entries[i]) : i \in 1..Len(entries)} |-> ValuesOf(entries, k)]

AliasOutcome(r, entries) ==
  IF \E i \in 1..Len(entries) : ~WellFormed(entries[i])
    THEN /\ r.err # "" /\ r.isNil
         /\ pc # "main" => (pc = "failed" /\ err = r.err /\ built = {} /\ tags = <<>>)
    ELSE /\ r.err = "" /\ ~r.isNil
         /\ r.aliases = TableOf(entries)
         /\ pc # "main" => (pc \in {"start", "extracted"}
                              /\ config.BindingAliases = TableOf(entries))

(* C15: ParseBindingAliases returns an error and no table whenever some   *)
(* entry is not key=value with one =, or has an empty key or value, or a  *)
(* key or value containing white space, backtick, colon or double quote;  *)
(* otherwise the table of the keys with their values in configuration     *)
(* order; after an error no unit is processed.                            *)
C15_AliasValidation ==
  AliasOutcome(ParseBindingAliases(bindingAliases), AliasEntries(bindingAliases))

-----------------------------------------------------------------------------
(* Properties of the write *)

(* the merge generateFile ran reported a change *)
MergeChanged ==
  Len(merges) = 1 /\ merges[1].res = "ok" /\ merges[1].changed

(* some field the merge matched has a text after the merge that differs   *)
(* from the serialization of its text before                              *)
SomeTextDiffers(m) ==
  \E d \in 1..Len(m.before) : \E k \in 1..Len(m.before[d].specs) :
    \E i \in 1..Len(m.before[d].specs[k].fields) :
      /\ Named(m.before[d], k, m.before[d].specs[k].fields[i])
      /\ TagsString(Parse(TextOf(m.before[d].specs[k].fields[i])).tags)
           # TextOf(m.after[d].specs[k].fields[i])

(* C5: the target file is replaced exactly when the merge reported a      *)
(* change, the merge reports a change exactly when some matched field's   *)
(* serialized text differs after the merge, and without a change (an      *)
(* empty plan included) no temp file is created and the directory and its *)
(* files stay as they were.                                               *)
C5_WriteGating ==
  /\ (disk # orig.disk \/ dir # orig.dir) => MergeChanged
  /\ (pc = "done" /\ MergeChanged) =>
       /\ dir[wr.filename] # orig.dir[wr.filename]
       /\ disk[dir[wr.filename]].data = Printed(ast)
  /\ (pc = "done" /\ ~MergeChanged) => (disk = orig.disk /\ dir = orig.dir)
  /\ wr.pc # "idle" => MergeChanged
  /\ \A r \in 1..Len(merges) :
       merges[r].res = "ok" => (merges[r].changed <=> SomeTextDiffers(merges[r]))

C5_Witness ==
  /\ pc = "done"
  /\ MergeChanged
  /\ dir[wr.filename] # orig.dir[wr.filename]
  /\ disk[dir[wr.filename]].data # orig.disk[1].data

(* C6: when a step of writeFileAtomic after the creation of the temp file *)
(* fails, the function returns that step's error, the target file has the *)
(* content it had before the call and is the same file, and the directory *)
(* holds no temp file.                                                    *)
C6_FailureAtomicity ==
  (wr.pc = "returned" /\ wr.fault \in {"write", "close", "chmod", "rename"}) =>
    /\ pc = "failed"
    /\ err = wr.fault
    /\ dir[wr.filename] = orig.dir[wr.filename]
    /\ disk[dir[wr.filename]].data = wr.before
    /\ wr.tempName \notin DOMAIN dir
    /\ DOMAIN dir = DOMAIN orig.dir

C6_Witness ==
  /\ wr.pc = "returned"
  /\ wr.fault = "write"
  /\ Len(disk[wr.ino].data) > 0
  /\ Len(disk[wr.ino].data) < Len(wr.data)

(* C7: whatever the interleaving of the reader's open and reads with the  *)
(* writer's steps, the content the reader has read at the end of the file *)
(* is the complete old content or the complete new content of the target. *)
C7_ReaderSeesOldOrNew ==
  rd.pc = "done" =>
    \/ rd.got = orig.disk[orig.dir[Filename(out, file)]].data
    \/ wr.pc # "idle" /\ rd.got = wr.data

C7_Witness ==
  /\ rd.pc = "done"
  /\ rd.at = "write"
  /\ pc = "done"
  /\ rd.got = orig.disk[1].data
  /\ disk[dir[wr.filename]].data = wr.data
  /\ wr.data # rd.got

(* the elements of a cleaned path *)
Elems(path) == CleanFrom(SplitFrom(path, 1, <<>>, <<>>), 1, Rooted(path), <<>>)

(* the path names a file below the directory *)
Inside(path, d) ==
  /\ Rooted(path) = Rooted(d)
  /\ Len(Elems(path)) > Len(Elems(d))
  /\ HasPrefix(Elems(path), Elems(d))
  /\ Elems(path)[Len(Elems(d)) + 1] # DotDot

(* generateFile has got past the path check and called os.Stat *)
IoDone == wr.filename # <<>> /\ pc # "checked"

(* C11: generateFile touches the target (stat, parse, temp file, rename)  *)
(* only if the cleaned target path lies inside the output directory;      *)
(* otherwise it returns the path-traversal error before any file I/O.     *)
C11_PathContainment ==
  /\ IoDone => Inside(Filename(out, file), out)
  /\ (~Inside(Filename(out, file), out) /\ pc \notin {"start", "extracted", "planned"}
        /\ DOMAIN tags # {})
       => (pc = "failed" /\ err = "invalid file path" /\ wr.filename = <<>>)

(* C16: a unit whose name stem has no .. segment is never aborted with    *)
(* the path-traversal error, whatever the output directory.               *)
C16_NoFalseRejection ==
  DotDot \notin EntrySet(SplitFrom(file.prefix, 1, <<>>, <<>>))
    => err # "invalid file path"

(* C14: when the run fails before writeFileAtomic is entered (manual tag  *)
(* fragment, path check, stat, parse of the source, parse of an existing  *)
(* annotation), generateFile returns the error and the directory and its  *)
(* files are as they were: no target created or modified, no temp file.   *)
C14_PreWriteErrorsLeaveState ==
  (pc = "failed" /\ wr.pc = "idle") =>
    /\ err \in {"err", "invalid file path", "stat", "parse"}
    /\ disk = orig.disk
    /\ dir = orig.dir

(* the fields of the merged source that stand for a built schema field *)
StructFields(b) ==
  UNION { UNION { { ast[d].specs[k].fields[i] :
                      i \in { n \in 1..Len(ast[d].specs[k].fields) :
                                /\ Named(ast[d], k, ast[d].specs[k].fields[n])
                                /\ ast[d].specs[k].name = b.message
                                /\ b.field.goName
                                     \in EntrySet(ast[d].specs[k].fields[n].names) } } :
                  k \in 1..Len(ast[d].specs) } :
          d \in 1..Len(ast) }

(* C12: with no aliases and auto_remove_json set, a field bound to QUERY  *)
(* (no auto tags, no manual tags) carries form:"<field name>" and         *)
(* json:"-" in the rewritten struct, as the README says.                  *)
C12_ReadmeQueryAddsForm ==
  (pc = "merged" /\ config = Config(TRUE, NoAliases)) =>
    \A b \in built :
      (b.location = QUERY /\ AutoKeys(b.autoTags) = {} /\ NoManualTags(b.field)) =>
        \A fld \in StructFields(b) :
          {Tag("form", b.field.name, <<>>), Tag("json", "-", <<>>)}
            \subseteq EntrySet(Parse(TextOf(fld)).tags)

(* the entries the Builder made for a struct field, in insertion order *)
BuiltFor(structName, field) ==
  { b.tags : b \in { x \in built : /\ x.message = structName
                                  /\ x.field.goName \in EntrySet(field.names)
                                  /\ x.tags # <<>> } }

(* old entries keep their places, planned keys take the planned value *)
PlacesKept(old, new, plan) ==
  /\ Len(new) >= Len(old)
  /\ \A i \in 1..Len(old) :
       new[i] = IF old[i].Key \in KeysOf(plan)
                  THEN plan[Position(plan, old[i].Key)] ELSE old[i]

(* the entries of new after those of old *)
Appended(old, new) == SubSeq(new, Len(old) + 1, Len(new))

(* the planned entries whose key old does not hold, in the plan's order *)
Fresh(old, plan) == SelectSeq(plan, LAMBDA e : e.Key \notin KeysOf(old))

(* the matched fields of a logged merge as <<struct, field before, field after>> *)
MatchedFields(m) ==
  UNION { UNION { { <<m.before[d].specs[k].name, m.before[d].specs[k].fields[i],
                      m.after[d].specs[k].fields[i]>> :
                      i \in { n \in 1..Len(m.before[d].specs[k].fields) :
                                Named(m.before[d], k, m.before[d].specs[k].fields[n]) } } :
                  k \in 1..Len(m.before[d].specs) } :
          d \in 1..Len(m.before) }

(* C13 as stated: after the merge each planned key that existed keeps its *)
(* position with the planned value, and the planned keys that did not     *)
(* exist follow all old entries in the Builder's insertion order.         *)
C13_AppendedInBuilderOrder ==
  \A r \in 1..Len(merges) : merges[r].res = "ok" =>
    \A f \in MatchedFields(merges[r]) : \A plan \in BuiltFor(f[1], f[2]) :
      /\ PlacesKept(Parse(TextOf(f[2])).tags, Parse(TextOf(f[3])).tags, plan)
      /\ Appended(Parse(TextOf(f[2])).tags, Parse(TextOf(f[3])).tags)
           = Fresh(Parse(TextOf(f[2])).tags, plan)

(* C13: after the merge each planned key that existed keeps its position  *)
(* with the planned value, and the planned keys that did not exist follow *)
(* all old entries in ascending order of their keys.                      *)
C13_AppendedInKeyOrder ==
  \A r \in 1..Len(merges) : merges[r].res = "ok" =>
    \A f \in MatchedFields(merges[r]) : \A plan \in BuiltFor(f[1], f[2]) :
      LET old == Parse(TextOf(f[2])).tags
          new == Parse(TextOf(f[3])).tags
          tail == Appended(old, new)
      IN /\ PlacesKept(old, new, plan)
         /\ EntrySet(tail) = EntrySet(Fresh(old, plan))
         /\ Len(tail) = Len(Fresh(old, plan))
         /\ \A i \in 1..Len(tail) : \A j \in (i + 1)..Len(tail) :
              Rank(tail[i].Key) < Rank(tail[j].Key)

C13_Witness ==
  /\ Len(merges) >= 1 /\ merges[1].res = "ok"
  /\ \E f \in MatchedFields(merges[1]) : \E plan \in BuiltFor(f[1], f[2]) :
       LET old == Parse(TextOf(f[2])).tags
           new == Parse(TextOf(f[3])).tags
       IN /\ Len(Fresh(old, plan)) >= 2
          /\ Appended(old, new) # Fresh(old, plan)
          /\ \E i \in 1..Len(old) : old[i].Key \in KeysOf(plan) /\ new[i] # old[i]

====
